---- MODULE Spec2Model ----
(***************************************************************************)
(* The mini-batch reader DataSet of experiments/csj/data/read_dataset_ctc  *)
(* as a state machine: Construct models __init__ (with the first           *)
(* next_cluster), NextBatch models next_batch (with the cluster-advance    *)
(* and reload it performs before returning).                               *)
(***************************************************************************)
EXTENDS Integers, Sequences, FiniteSets, TLC

(***************************************************************************)
(* Bounds of the exploration.                                              *)
(***************************************************************************)
\* utterances in a generated small corpus: 0..MaxUtt
MaxUtt == 2
\* frame counts of a generated small corpus: 1 or MaxFrames
MaxFrames == 3
\* batch_size arguments tried on every state: -MaxNegBatch..MaxBatch
MaxBatch == 3
MaxNegBatch == 1
\* batches up to this length are shuffled into every order, longer ones into
\* a few representative orders
MaxPerm == 3
\* random.sample draws every sample from populations up to this size, and
\* two representative samples from larger ones
MaxPop == 3
\* totals tried by the cluster-size computation: 0..MaxTotal
MaxTotal == 4000
\* keys tried by the name round trip have up to MaxKeyLen characters
MaxKeyLen == 3

(***************************************************************************)
(* Program constants.                                                      *)
(***************************************************************************)
FeatureDim == 123
ClusterAlign == 128
NumClusterDefault == 10
NumClusterLarge == 15
\* the batch size the repository's test uses
TestBatchSize == 64

None == {}
Some(x) == {x}
TheVal(o) == CHOOSE x \in o : TRUE

ValidDataTypes == {"train", "dev", "eval1", "eval2", "eval3"}

(***************************************************************************)
(* Python list and set primitives.                                         *)
(***************************************************************************)
Range(s) == {s[i] : i \in 1..Len(s)}

Min2(a, b) == IF a < b THEN a ELSE b
Max2(a, b) == IF a > b THEN a ELSE b

\* range(n) as a set
PyRange(n) == 0..(n - 1)

\* list(s) iterating the set from its highest slot down
SetToListDescending(s, n) ==
    SelectSeq([i \in 1..n |-> n - i], LAMBDA v : v \in s)

\* list(s) for a set s of small non-negative ints: CPython stores the int i
\* in slot i of the set's table (hash(i) = i, the table is larger than the
\* set, deletions never resize), so iteration is ascending.
\* `n` is the size of the table: every element is below it.
SetToList(s, n) == SelectSeq([i \in 1..n |-> i - 1], LAMBDA v : v \in s)

\* l[:k], negative k counting from the end
SliceTo(l, k) ==
    IF k >= 0 THEN SubSeq(l, 1, Min2(k, Len(l)))
    ELSE SubSeq(l, 1, Max2(Len(l) + k, 0))

\* l[a:b] for 0 <= a <= b
SliceFromTo(l, a, b) == SubSeq(l, Min2(a, Len(l)) + 1, Min2(b, Len(l)))

Reverse(l) == [i \in 1..Len(l) |-> l[Len(l) + 1 - i]]

\* every ordering of the elements of a set
RECURSIVE Orderings(_)
Orderings(s) ==
    IF s = {} THEN {<<>>}
    ELSE UNION {{<<x>> \o o : o \in Orderings(s \ {x})} : x \in s}

\* the outcomes of random.shuffle(l) that are explored
Shuffles(l) ==
    IF Len(l) <= MaxPerm THEN Orderings(Range(l))
    ELSE {l, Reverse(l)}

\* k-element subsets
KSubsets(s, k) == {t \in SUBSET s : Cardinality(t) = k}

\* line 206 drawing each index on its own, as random.choice would
SamplesWithReplacement(l, k) ==
    IF Len(l) <= MaxPop THEN [1..k -> Range(l)] ELSE {[i \in 1..k |-> l[1]]}

\* the outcomes of random.sample(l, k) that are explored, 0 <= k <= len(l)
Samples(l, k) ==
    IF Len(l) <= MaxPop
    THEN UNION {Orderings(t) : t \in KSubsets(Range(l), k)}
    ELSE {SubSeq(l, 1, k), Reverse(SubSeq(l, Len(l) - k + 1, Len(l)))}

(***************************************************************************)
(* Strings are sequences of tokens; "/", "." and "_" are always tokens of  *)
(* their own, every other token is free of these three characters (but the *)
(* first token of Root, an opaque directory prefix).                       *)
(***************************************************************************)
\* s.split(sep)[0]
SplitFirst(s, sep) ==
    IF \E i \in 1..Len(s) : s[i] = sep
    THEN SubSeq(s, 1, (CHOOSE i \in 1..Len(s) :
                          s[i] = sep /\ \A j \in 1..(i - 1) : s[j] # sep) - 1)
    ELSE s

\* os.path.basename(p)
Basename(p) ==
    IF \E i \in 1..Len(p) : p[i] = "/"
    THEN SubSeq(p, (CHOOSE i \in 1..Len(p) :
                       p[i] = "/" /\ \A j \in (i + 1)..Len(p) : p[j] # "/") + 1,
                Len(p))
    ELSE p

\* lines 175-176 and 239-240: basename(path).split('.')[0]
NameOf(path) == SplitFirst(Basename(path), ".")

\* os.path.join(a, b)
JoinTwo(a, b) ==
    IF b # <<>> /\ Head(b) = "/" THEN b
    ELSE IF a = <<>> \/ a[Len(a)] = "/" THEN a \o b
    ELSE a \o <<"/">> \o b

\* os.path.join(a, b, c, d)
Join4(a, b, c, d) == JoinTwo(JoinTwo(JoinTwo(a, b), c), d)

Root == <<"/n/sd8/inaguma/corpus/csj/dataset/monolog/ctc", "/">>

\* self.dataset_path
DatasetPath(label_type_, train_data_size_, data_type_) ==
    Join4(Root, <<label_type_>>, <<train_data_size_>>, <<data_type_>>)

\* the path of one utterance's array file under `sub` ('input' or 'label')
ArrayPath(dataset_path_, sub, input_name) ==
    Join4(dataset_path_, <<sub>>, SplitFirst(input_name, "_"),
          input_name \o <<".", "npy">>)

(***************************************************************************)
(* The corpus on disk.  A corpus descriptor stands for the content of      *)
(* frame_num.pickle, a dict of name -> frame count whose items are         *)
(* numbered 1..n in dict order, and for the array files written next to    *)
(* it.  `variant` is the train_data_size directory the corpus lives in.    *)
(***************************************************************************)
SmallCorpus(fs) ==
    [kind |-> "small", frames |-> fs, n |-> Len(fs), variant |-> "default"]
ScenarioCorpus ==
    [kind |-> "scenario", frames |-> <<5, 3, 8>>, n |-> 3, variant |-> "default"]
BigCorpus(n_, size) == [kind |-> "big", frames |-> <<>>, n |-> n_, variant |-> size]

\* utterances a big corpus has beyond num_cluster * 128
BigRemainder == 3
\* frame counts of a big corpus cycle through 1..BigFrameCycle in dict order
BigFrameCycle == 12
\* a big corpus has SpeakerSize utterances per speaker
SpeakerSize == 32

SmallCorpora ==
    {SmallCorpus(fs) : fs \in UNION {[1..n_ -> {1, MaxFrames}] : n_ \in 0..MaxUtt}}

ScenarioNames == <<"a", "b", "c">>

SpeakerOf(c, k) ==
    IF c.kind = "big" THEN "S" \o ToString((k - 1) \div SpeakerSize)
    ELSE IF k % 2 = 1 THEN "A01" ELSE "B02"

\* the key of item k of frame_num_dict
ItemName(c, k) ==
    IF c.kind = "scenario" THEN <<ScenarioNames[k]>>
    ELSE <<SpeakerOf(c, k), "_", ToString(k)>>

\* the value of item k of frame_num_dict
ItemFrames(c, k) ==
    IF c.kind = "big" THEN 1 + ((k * 5) % BigFrameCycle) ELSE c.frames[k]

\* the feature file of item k, an array of shape (frames, width) whose frames
\* are told apart by a number each, and its label file
FeatBase == 100
FeatureFile(c, k) ==
    [width |-> FeatureDim, frames |-> [t \in 1..ItemFrames(c, k) |-> k * FeatBase + t]]
LabelFile(c, k) == <<k>>
\* the item a loaded frame or label comes from
FrameItem(v) == v \div FeatBase

\* np.load(path) under dataset_path_/sub: the item whose file is stored at
\* `path`; the search tries item `near` first
FindFile(c, dataset_path_, sub, path, near) ==
    IF ArrayPath(dataset_path_, sub, ItemName(c, near)) = path THEN near
    ELSE CHOOSE k \in 1..c.n : ArrayPath(dataset_path_, sub, ItemName(c, k)) = path

(***************************************************************************)
(* sorted(frame_num_dict.items(), key=lambda x: x[1]): a stable sort of    *)
(* the items (given by their numbers) by frame count.                      *)
(***************************************************************************)
RECURSIVE SortedByFrames(_, _, _)
SortedByFrames(c, items, keys) ==
    IF keys = {} THEN <<>>
    ELSE LET m == CHOOSE x \in keys : \A y \in keys : x <= y
         IN SelectSeq(items, LAMBDA k : ItemFrames(c, k) = m)
            \o SortedByFrames(c, items, keys \ {m})

\* line 64 left out: the items stay in dict order
FrameNumTupleSortedByName(c) == [k \in 1..c.n |-> k]

\* line 64 sorting from the longest down, as with reverse=True
FrameNumTupleSortedDescending(c) ==
    Reverse(SortedByFrames(c, SubSeq([k \in 1..c.n |-> k], 1, c.n),
                           {ItemFrames(c, k) : k \in 1..c.n}))

\* line 64: sorted(frame_num_dict.items(), key=lambda x: x[1])
FrameNumTupleSorted(c) ==
    SortedByFrames(c, SubSeq([k \in 1..c.n |-> k], 1, c.n),
                   {ItemFrames(c, k) : k \in 1..c.n})

\* the input (sub = 'input') or label paths of the sorted items
PathsOf(c, sorted, dataset_path_, sub) ==
    [k \in 1..Len(sorted) |-> ArrayPath(dataset_path_, sub, ItemName(c, sorted[k]))]

\* paths[a:b] of PathsOf, 0 <= a <= b
PathSlice(c, sorted, dataset_path_, sub, a, b) ==
    SubSeq([i \in 1..(Min2(b, Len(sorted)) - Min2(a, Len(sorted))) |->
               ArrayPath(dataset_path_, sub, ItemName(c, sorted[Min2(a, Len(sorted)) + i]))],
           1, Min2(b, Len(sorted)) - Min2(a, Len(sorted)))

(***************************************************************************)
(* The frame-stack preprocessor utils.data.frame_stack.stack_frame, an     *)
(* external collaborator: every num_skip-th frame starts a stacked frame,  *)
(* so an array of n frames becomes one of ceil(n / num_skip) frames.  A    *)
(* stacked frame is identified by the first frame of its window.           *)
(***************************************************************************)
StackFrame(arr, num_stack_, num_skip_) ==
    [width |-> arr.width * num_stack_,
     frames |-> [j \in 1..((Len(arr.frames) + num_skip_ - 1) \div num_skip_) |->
                    arr.frames[(j - 1) * num_skip_ + 1]]]

(***************************************************************************)
(* The state: the corpus on disk, the reader's attributes, and the outcome *)
(* of the last call.                                                       *)
(***************************************************************************)
VARIABLES
    corpus,               \* frame_num.pickle and the array files on disk
    phase,                \* "new", "ready" (constructed), "failed" (__init__ raised)
    raised,               \* the exception of the last call, or "none"
    attrs,                \* the attributes assigned so far
    data_type, train_data_size, label_type, num_stack, num_skip,
    is_sorted, is_progressbar, input_size,
    frame_num_tuple_sorted,   \* the item numbers in sorted order
    data_num, num_cluster, rest_cluster, data_num_cluster,
    input_paths_cluster, label_paths_cluster,
    input_list, label_list, rest, next_cluster_flag,
    batch_size,           \* the argument of the last next_batch call
    ret,                  \* what the last next_batch call returned
    call,                 \* the last call: its name, its data_type argument and
                          \* the rest and rest_cluster it started from
    emitted,              \* how often each index was returned in the current pass
    pass_end,             \* the last call ended a pass (refill or reload)
    pass_calls,           \* the returning calls of the pass under way: how many,
                          \* their batch_size (0 once two of them differed),
                          \* whether the pass started from a refilled rest, and
                          \* the rows returned since the epoch began
    total, nc_arg, cluster_size,  \* the cluster-size computation on its own
    key, recovered        \* a key of frame_num_dict and the name a batch reports
                          \* for it, on their own

argVars == <<data_type, train_data_size, label_type, num_stack, num_skip,
             is_sorted, is_progressbar, input_size>>
indexVars == <<frame_num_tuple_sorted, data_num, num_cluster, data_num_cluster>>
clusterVars == <<rest_cluster, input_paths_cluster, label_paths_cluster,
                 input_list, label_list>>
callVars == <<batch_size, ret, call, emitted, pass_end, pass_calls>>
sizeVars == <<total, nc_arg, cluster_size, key, recovered>>
vars == <<corpus, phase, raised, attrs, argVars, indexVars, clusterVars,
          rest, next_cluster_flag, callVars, sizeVars>>

\* attributes that are functions of the ones above
dataset_path == DatasetPath(label_type, train_data_size, data_type)
input_paths == PathsOf(corpus, frame_num_tuple_sorted, dataset_path, "input")
label_paths == PathsOf(corpus, frame_num_tuple_sorted, dataset_path, "label")

NoRet == [indices |-> <<>>, max_frame_num |-> 0, input_data |-> <<>>,
          labels |-> <<>>, seq_len |-> <<>>, input_names |-> <<>>]

NoCalls == [n |-> 0, bs |-> 0, after_refill |-> FALSE, epoch_rows |-> 0]
NoCall == [op |-> "none", data_type |-> "", rest |-> {}, rest_cluster |-> 0]
InitCall(dt) == [op |-> "__init__", data_type |-> dt, rest |-> {}, rest_cluster |-> 0]
BatchCall(rest_, rest_cluster_) ==
    [op |-> "next_batch", data_type |-> "", rest |-> rest_, rest_cluster |-> rest_cluster_]

ArgAttrs == {"data_type", "train_data_size", "label_type", "num_stack",
             "num_skip", "is_sorted", "is_progressbar"}
AllAttrs == ArgAttrs \cup
    {"input_size", "dataset_path", "frame_num_dict_path", "frame_num_dict",
     "frame_num_tuple_sorted", "data_num", "input_paths", "label_paths",
     "num_cluster", "rest_cluster", "data_num_cluster", "input_paths_cluster",
     "label_paths_cluster", "input_list", "label_list", "rest",
     "next_cluster_flag"}

Corpora ==
    SmallCorpora \cup
    {ScenarioCorpus,
     BigCorpus(NumClusterDefault * ClusterAlign + BigRemainder, "default"),
     BigCorpus(NumClusterLarge * ClusterAlign + BigRemainder, "large")}

\* no attribute of the reader holds a value
NoReaderState ==
    /\ data_type = ""
    /\ train_data_size = ""
    /\ label_type = ""
    /\ num_stack = None
    /\ num_skip = None
    /\ is_sorted = FALSE
    /\ is_progressbar = FALSE
    /\ input_size = 0
    /\ frame_num_tuple_sorted = <<>>
    /\ data_num = 0
    /\ num_cluster = 0
    /\ rest_cluster = 0
    /\ data_num_cluster = 0
    /\ input_paths_cluster = <<>>
    /\ label_paths_cluster = <<>>
    /\ input_list = <<>>
    /\ label_list = <<>>
    /\ rest = {}
    /\ next_cluster_flag = FALSE

\* no reader constructed yet
NoReader ==
    /\ phase = "new"
    /\ raised = "none"
    /\ attrs = {}
    /\ NoReaderState
    /\ batch_size = 0
    /\ ret = NoRet
    /\ call = NoCall
    /\ emitted = <<>>
    /\ pass_end = FALSE
    /\ pass_calls = NoCalls

NotComputed == 0 - 1
NotRecovered == <<"?">>

Init ==
    /\ corpus \in Corpora
    /\ NoReader
    /\ total = 0
    /\ nc_arg = 0
    /\ cluster_size = NotComputed
    /\ key = <<>>
    /\ recovered = NotRecovered

(***************************************************************************)
(* __init__                                                                *)
(***************************************************************************)
\* line 89 with round() in the place of int()
ClusterSizeRounded(data_num_, num_cluster_) ==
    ((2 * data_num_ + num_cluster_ * ClusterAlign)
        \div (2 * num_cluster_ * ClusterAlign)) * ClusterAlign

\* int((data_num / num_cluster) / 128) * 128, `/` being true division: the
\* quotient is never rounded to a whole number before it is divided again
ClusterSize(data_num_, num_cluster_) ==
    (data_num_ \div (num_cluster_ * ClusterAlign)) * ClusterAlign

NumClusterOf(train_data_size_) ==
    IF train_data_size_ = "default" THEN NumClusterDefault ELSE NumClusterLarge

\* np.load of every path of the cluster, in order; ids are the sorted item
\* numbers at the cluster's positions
LoadFeatures(c, dataset_path_, paths, ids, dnc) ==
    [i \in 1..dnc |->
        FeatureFile(c, FindFile(c, dataset_path_, "input", paths[i], ids[i]))]
LoadLabels(c, dataset_path_, paths, ids, dnc) ==
    [i \in 1..dnc |->
        LabelFile(c, FindFile(c, dataset_path_, "label", paths[i], ids[i]))]
StackAll(list, num_stack_, num_skip_) ==
    [i \in 1..Len(list) |-> StackFrame(list[i], num_stack_, num_skip_)]

\* next_cluster(): load the arrays of the cluster's paths, stack, reset rest
NextCluster(c, dataset_path_, in_paths, lab_paths, ids, dnc, num_stack_, num_skip_) ==
    IF dnc > Len(in_paths) \/ dnc > Len(lab_paths)
    THEN [raised |-> "IndexError", input_list |-> <<>>, label_list |-> <<>>,
          rest |-> {}]
    ELSE [raised |-> "none",
          input_list |->
              IF num_stack_ # None /\ num_skip_ # None
              THEN StackAll(LoadFeatures(c, dataset_path_, in_paths, ids, dnc),
                            TheVal(num_stack_), TheVal(num_skip_))
              ELSE LoadFeatures(c, dataset_path_, in_paths, ids, dnc),
          label_list |-> LoadLabels(c, dataset_path_, lab_paths, ids, dnc),
          rest |-> PyRange(Len(in_paths))]

DataTypeArgs == {"train", "dev", "eval1", "train_all", "test"}
TrainDataSizeArgs == {"default", "large"}
LabelTypeArgs == {"kanji"}
\* the (num_stack, num_skip) arguments tried
StackArgs == {<<None, None>>, <<None, Some(2)>>, <<Some(1), None>>,
              <<Some(2), None>>, <<Some(2), Some(2)>>}

\* the splits and size variants for which the corpus is on disk: a big
\* corpus is the training split of its variant
OnDisk(c, dt, size) ==
    /\ size = c.variant
    /\ c.kind = "big" => dt \notin (ValidDataTypes \ {"train"})

\* a big corpus is read without the frame-stack transform
Tried(c, ns, nk) == c.kind = "big" => nk = None

\* line 37 accepting the names line 86 tests for
ValidSplitWithTrainAll(dt) == dt \in ValidDataTypes \cup {"train_all"}
\* line 37
ValidSplit(dt) == dt \in ValidDataTypes

ConstructWith(dt, size, lt, ns, nk, srt, pb) ==
    /\ call' = InitCall(dt)
    /\ UNCHANGED <<corpus, batch_size, ret, emitted, pass_end, pass_calls, sizeVars>>
    /\ IF ~ValidSplit(dt)
       THEN \* line 38: raise ValueError before anything is assigned
            /\ phase' = "failed"
            /\ raised' = "ValueError"
            /\ UNCHANGED <<attrs, argVars, indexVars, clusterVars, rest,
                           next_cluster_flag>>
       ELSE
         /\ data_type' = dt
         /\ train_data_size' = size
         /\ label_type' = lt
         /\ num_stack' = ns
         /\ num_skip' = nk
         /\ is_sorted' = srt
         /\ is_progressbar' = pb
         /\ IF ns = None
            THEN \* line 51: 123 * None raises TypeError
                 /\ phase' = "failed"
                 /\ raised' = "TypeError"
                 /\ attrs' = ArgAttrs \cup {"input_size"}
                 /\ input_size' = FeatureDim
                 /\ UNCHANGED <<indexVars, clusterVars, rest, next_cluster_flag>>
            ELSE
              LET dpath == DatasetPath(lt, size, dt)
                  dn == corpus.n
                  nc == NumClusterOf(size)
                  train == dt \in {"train", "train_all"}
                  dnc == IF train THEN ClusterSize(dn, nc) ELSE dn
              IN \E sorted \in {FrameNumTupleSorted(corpus)} :
                 \E in_cl \in {PathSlice(corpus, sorted, dpath, "input", 0, dnc)},
                    lab_cl \in {PathSlice(corpus, sorted, dpath, "label", 0, dnc)} :
                 \E nxt \in {NextCluster(corpus, dpath, in_cl, lab_cl, sorted,
                                         dnc, ns, nk)} :
                 /\ input_size' = FeatureDim * TheVal(ns)
                 /\ frame_num_tuple_sorted' = sorted
                 /\ data_num' = dn
                 /\ num_cluster' = nc
                 /\ rest_cluster' = IF train THEN nc - 1 ELSE 0
                 /\ data_num_cluster' = dnc
                 /\ input_paths_cluster' = in_cl
                 /\ label_paths_cluster' = lab_cl
                 /\ input_list' = nxt.input_list
                 /\ label_list' = nxt.label_list
                 /\ rest' = nxt.rest
                 /\ next_cluster_flag' = FALSE
                 /\ raised' = nxt.raised
                 /\ phase' = IF nxt.raised = "none" THEN "ready" ELSE "failed"
                 /\ attrs' = IF nxt.raised = "none" THEN AllAttrs
                             ELSE AllAttrs \ {"rest", "next_cluster_flag"}

Construct ==
    /\ phase = "new"
    /\ \E dt \in DataTypeArgs, size \in TrainDataSizeArgs, lt \in LabelTypeArgs,
          st \in StackArgs, srt \in BOOLEAN, pb \in {FALSE} :
          /\ OnDisk(corpus, dt, size)
          /\ Tried(corpus, st[1], st[2])
          /\ ConstructWith(dt, size, lt, st[1], st[2], srt, pb)

(***************************************************************************)
(* next_batch                                                              *)
(***************************************************************************)
\* the rows padded with their last frame instead of zeros
PadRowEdge(frames, max_frame_num) ==
    [t \in 1..max_frame_num |->
        IF t <= Len(frames) THEN frames[t] ELSE frames[Len(frames)]]
\* np.zeros((max_frame_num,)) with the first frame_num entries overwritten
PadRow(frames, max_frame_num) ==
    [t \in 1..max_frame_num |-> IF t <= Len(frames) THEN frames[t] ELSE 0]

\* lines 162-176 and 226-240: the tensors for the indices in `order`
Assemble(order, max_frame_num, in_list, lab_list, paths) ==
    [indices |-> order,
     max_frame_num |-> max_frame_num,
     input_data |-> [i \in 1..Len(order) |->
                        PadRow(in_list[order[i] + 1].frames, max_frame_num)],
     labels |-> [i \in 1..Len(order) |-> lab_list[order[i] + 1]],
     seq_len |-> [i \in 1..Len(order) |-> Len(in_list[order[i] + 1].frames)],
     input_names |-> [i \in 1..Len(order) |-> NameOf(paths[order[i] + 1])]]

\* input_data[i_batch, :frame_num, :] = data_i broadcasts for every row
Broadcasts(order, max_frame_num, in_list, width) ==
    \A i \in 1..Len(order) :
        /\ Len(in_list[order[i] + 1].frames) <= max_frame_num
        /\ in_list[order[i] + 1].width = width

\* max(frame_num_list)
MaxFrameNum(idx, in_list) ==
    CHOOSE m \in {Len(in_list[idx[i] + 1].frames) : i \in 1..Len(idx)} :
        \A i \in 1..Len(idx) : Len(in_list[idx[i] + 1].frames) <= m

\* the call raises `exc` after the reader reached rest1, flag1
Raise(bs, exc, rest1, flag1) ==
    /\ raised' = exc
    /\ batch_size' = bs
    /\ ret' = NoRet
    /\ call' = BatchCall(rest, rest_cluster)
    /\ rest' = rest1
    /\ next_cluster_flag' = flag1
    /\ UNCHANGED <<corpus, phase, attrs, argVars, indexVars, clusterVars,
                   emitted, pass_end, pass_calls, sizeVars>>

\* the emission counts of the pass after a call returned the indices `idx`;
\* the first call of a pass starts from zero
Count(idx, fresh, before, n) ==
    [i \in 1..n |->
        (IF fresh \/ Len(before) # n THEN 0 ELSE before[i])
        + Cardinality({j \in 1..Len(idx) : idx[j] = i - 1})]

\* the last returning call ended an epoch: a pass over the last cluster of a
\* sorted training reader (line 190), a pass of any other reader
EpochEnd ==
    pass_end /\ ((is_sorted /\ data_type = "train") => call.rest_cluster = 0)

\* what a returning call records
Return(bs, result, ends_pass) ==
    /\ raised' = "none"
    /\ batch_size' = bs
    /\ ret' = result
    /\ call' = BatchCall(rest, rest_cluster)
    /\ emitted' = Count(result.indices, pass_end, emitted, Len(input_paths_cluster))
    /\ pass_end' = ends_pass
    /\ pass_calls' = IF pass_end \/ pass_calls.n = 0
                     THEN [n |-> 1, bs |-> bs, after_refill |-> pass_end,
                           epoch_rows |->
                               IF EpochEnd THEN Len(result.indices)
                               ELSE pass_calls.epoch_rows + Len(result.indices)]
                     ELSE [n |-> pass_calls.n + 1,
                           bs |-> IF pass_calls.bs = bs THEN bs ELSE 0,
                           after_refill |-> pass_calls.after_refill,
                           epoch_rows |-> pass_calls.epoch_rows + Len(result.indices)]
    /\ UNCHANGED <<corpus, phase, attrs, argVars, indexVars, sizeVars>>

\* the comparison of lines 142 and 204 taken as >=
TakeAtLeast(rest_, bs) == Cardinality(rest_) >= bs
\* lines 142 and 204: len(self.rest) > batch_size
Take(rest_, bs) == Cardinality(rest_) > bs

\* line 143 slicing the batch off the back of the list: list(rest)[-batch_size:]
SortedIndicesFromBack(rest_, bs, n) ==
    IF Take(rest_, bs) /\ bs >= 1
    THEN SubSeq(SetToList(rest_, n), Cardinality(rest_) - bs + 1, Cardinality(rest_))
    ELSE SetToList(rest_, n)

\* lines 143 and 147: the indices a sorted call selects, n = len(input_paths_cluster)
SortedIndices(rest_, bs, n) ==
    IF Take(rest_, bs) THEN SliceTo(SetToList(rest_, n), bs) ELSE SetToList(rest_, n)

\* line 152 emptying rest where it should refill it
SortedRestDrained(rest_, bs, n, train) ==
    IF Take(rest_, bs) THEN rest_ \ Range(SliceTo(SetToList(rest_, n), bs))
    ELSE IF train THEN rest_
    ELSE {}

\* lines 151-153 left out: an exhausted rest is left as it is on every split
SortedRestNoRefill(rest_, bs, n, train) ==
    IF Take(rest_, bs) THEN rest_ \ Range(SliceTo(SetToList(rest_, n), bs))
    ELSE rest_

\* line 144 left out: the selected indices stay in rest
SortedRestKept(rest_, bs, n, train) ==
    IF Take(rest_, bs) \/ train THEN rest_ ELSE PyRange(n)
\* lines 144 and 152: rest after the selection of a sorted call
SortedRest(rest_, bs, n, train) ==
    IF Take(rest_, bs) THEN rest_ \ Range(SliceTo(SetToList(rest_, n), bs))
    ELSE IF train THEN rest_
    ELSE PyRange(n)

\* line 149
SortedFlag(rest_, bs, train, flag) == IF ~Take(rest_, bs) /\ train THEN TRUE ELSE flag

\* line 156 reading the first selected index instead of the last
SortedMaxFrameNumFirst(sorted_indices, in_list) ==
    Len(in_list[sorted_indices[1] + 1].frames)
\* line 156: self.input_list[sorted_indices[-1]].shape[0]
SortedMaxFrameNum(sorted_indices, in_list) ==
    Len(in_list[sorted_indices[Len(sorted_indices)] + 1].frames)

\* lines 181-182 counting the clusters from the far end
FrameOffsetFromRest(num_cluster_, rest_cluster_, dnc) ==
    IF rest_cluster_ >= 1 THEN rest_cluster_ * dnc ELSE 0

\* lines 181-182 and 192: where the next cluster starts in the sorted paths
FrameOffset(num_cluster_, rest_cluster_, dnc) ==
    IF rest_cluster_ >= 1 THEN (num_cluster_ - rest_cluster_) * dnc ELSE 0

\* line 191 left out: rest_cluster stays 0 once the last cluster is done
NextRestClusterNoWrap(num_cluster_, rest_cluster_, train) ==
    IF rest_cluster_ >= 1 THEN rest_cluster_ - 1 ELSE rest_cluster_

\* line 191 starting the new epoch one cluster too high
NextRestClusterWrapHigh(num_cluster_, rest_cluster_, train) ==
    IF rest_cluster_ >= 1 THEN rest_cluster_ - 1
    ELSE IF train THEN num_cluster_
    ELSE rest_cluster_

\* line 187 left out: rest_cluster is never counted down
NextRestClusterStuck(num_cluster_, rest_cluster_, train) ==
    IF rest_cluster_ >= 1 THEN rest_cluster_
    ELSE IF train THEN num_cluster_ - 1
    ELSE rest_cluster_
\* lines 187 and 191
NextRestCluster(num_cluster_, rest_cluster_, train) ==
    IF rest_cluster_ >= 1 THEN rest_cluster_ - 1
    ELSE IF train THEN num_cluster_ - 1
    ELSE rest_cluster_

\* the cluster the reader holds
HeldCluster ==
    [rest_cluster |-> rest_cluster,
     input_paths_cluster |-> input_paths_cluster,
     label_paths_cluster |-> label_paths_cluster,
     input_list |-> input_list,
     label_list |-> label_list]

\* lines 179-197: the cluster the reader holds after a cluster-advance
AdvancedCluster(train) ==
    LET moved == rest_cluster >= 1 \/ train
        frame_offset == FrameOffset(num_cluster, rest_cluster, data_num_cluster)
        in_cl == IF moved
                 THEN PathSlice(corpus, frame_num_tuple_sorted, dataset_path, "input",
                                frame_offset, frame_offset + data_num_cluster)
                 ELSE input_paths_cluster
        lab_cl == IF moved
                  THEN PathSlice(corpus, frame_num_tuple_sorted, dataset_path, "label",
                                 frame_offset, frame_offset + data_num_cluster)
                  ELSE label_paths_cluster
        ids == SliceFromTo(frame_num_tuple_sorted, frame_offset,
                           frame_offset + data_num_cluster)
        nxt == NextCluster(corpus, dataset_path, in_cl, lab_cl, ids,
                           data_num_cluster, num_stack, num_skip)
    IN [rest_cluster |-> NextRestCluster(num_cluster, rest_cluster, train),
        input_paths_cluster |-> in_cl,
        label_paths_cluster |-> lab_cl,
        input_list |-> nxt.input_list,
        label_list |-> nxt.label_list]

\* the batch assembled from the cluster loaded by the advance
BatchSourceAdvanced(held, advanced) == advanced

\* lines 169-176 run before lines 178-198: the batch is assembled from the
\* cluster held when the call started, whatever the advance loads afterwards
BatchSource(held, advanced) == held

\* line 156 reading the list after random.shuffle has reordered it
FrameNumIndicesShuffled(sorted_indices, order) == order

\* line 156 runs before line 159: max_frame_num is read off the indices as
\* selected, not as shuffled
FrameNumIndices(sorted_indices, order) == sorted_indices

\* lines 141-198
SortedBatch(bs) ==
    LET n == Len(input_paths_cluster)
        train == data_type = "train"
    IN \E sorted_indices \in {SortedIndices(rest, bs, n)},
          rest1 \in {SortedRest(rest, bs, n, train)},
          flag1 \in {SortedFlag(rest, bs, train, next_cluster_flag)} :
       IF sorted_indices = <<>>
       THEN \* line 156: sorted_indices[-1] of an empty list
            Raise(bs, "IndexError", rest1, flag1)
       ELSE
         \E after \in {IF flag1 THEN AdvancedCluster(train) ELSE HeldCluster} :
         \E order \in Shuffles(sorted_indices) :
         \E max_frame_num \in
               {SortedMaxFrameNum(FrameNumIndices(sorted_indices, order), input_list)} :
         IF ~Broadcasts(sorted_indices, max_frame_num, input_list, input_size)
         THEN \* line 172: the slice and data_i differ in shape
              Raise(bs, "ValueError", rest1, flag1)
         ELSE
           \E src \in {BatchSource(HeldCluster, after)} :
           \E result \in {Assemble(order, max_frame_num, src.input_list,
                                   src.label_list, src.input_paths_cluster)} :
           /\ Return(bs, result, ~Take(rest, bs))
           /\ rest_cluster' = after.rest_cluster
           /\ input_paths_cluster' = after.input_paths_cluster
           /\ label_paths_cluster' = after.label_paths_cluster
           /\ input_list' = after.input_list
           /\ label_list' = after.label_list
           /\ rest' = IF flag1 THEN PyRange(Len(after.input_paths_cluster)) ELSE rest1
           /\ next_cluster_flag' = FALSE

\* lines 211-212 emptying rest where they should refill it
UnsortedRestDrained(rest_, bs, random_indices, n) ==
    IF Take(rest_, bs) THEN rest_ \ Range(random_indices) ELSE {}

\* line 211 left out: rest is not refilled when the pass ends
UnsortedRestNoRefill(rest_, bs, random_indices, n) ==
    IF Take(rest_, bs) THEN rest_ \ Range(random_indices) ELSE rest_
\* lines 207 and 211: rest after an unsorted call drew random_indices
UnsortedRest(rest_, bs, random_indices, n) ==
    IF Take(rest_, bs) THEN rest_ \ Range(random_indices) ELSE PyRange(n)

\* lines 203-240
UnsortedBatch(bs) ==
    LET n == Len(input_paths_cluster)
    IN IF Take(rest, bs) /\ bs < 0
       THEN \* line 206: random.sample with a negative sample size
            Raise(bs, "ValueError", rest, next_cluster_flag)
       ELSE
         \E random_indices \in (IF Take(rest, bs) THEN Samples(SetToList(rest, n), bs)
                                ELSE Shuffles(SetToList(rest, n))) :
         \E rest1 \in {UnsortedRest(rest, bs, random_indices, n)} :
            IF random_indices = <<>>
            THEN \* line 223: max() of an empty list
                 Raise(bs, "ValueError", rest1, next_cluster_flag)
            ELSE
              \E max_frame_num \in {MaxFrameNum(random_indices, input_list)} :
              IF ~Broadcasts(random_indices, max_frame_num, input_list, input_size)
              THEN \* line 236: the slice and data_i differ in shape
                   Raise(bs, "ValueError", rest1, next_cluster_flag)
              ELSE
                \E result \in {Assemble(random_indices, max_frame_num, input_list,
                                        label_list, input_paths_cluster)} :
                /\ Return(bs, result, ~Take(rest, bs))
                /\ rest' = rest1
                /\ UNCHANGED <<next_cluster_flag, clusterVars>>

\* the batch_size arguments tried: on a cluster of at least TestBatchSize
\* utterances the test's batch size and one beyond the cluster
BatchSizeArgs ==
    IF data_num_cluster >= TestBatchSize
    THEN {TestBatchSize, data_num_cluster + 1}
    ELSE ((0 - MaxNegBatch)..MaxBatch) \cup {data_num_cluster + 1}

NextBatch ==
    /\ phase = "ready"
    /\ \E bs \in BatchSizeArgs :
          IF is_sorted THEN SortedBatch(bs) ELSE UnsortedBatch(bs)

Next == Construct \/ NextBatch
Spec == Init /\ [][Next]_vars

\* a caller that keeps asking for batches of a positive size, as the loop of
\* test_read_dataset_ctc.py does
PositiveBatch ==
    /\ phase = "ready"
    /\ \E bs \in {b \in BatchSizeArgs : b >= 1} :
          IF is_sorted THEN SortedBatch(bs) ELSE UnsortedBatch(bs)

\* the corpora of a few utterances, on which the training cluster is empty
InitCalls == Init /\ corpus.kind # "big"

\* the readers the test builds are sorted ones
ConstructSorted == Construct /\ is_sorted'

NextCalls == ConstructSorted \/ NextBatch
SpecCalls == InitCalls /\ [][NextCalls]_vars /\ WF_vars(PositiveBatch)

(***************************************************************************)
(* The cluster-size computation of lines 82-89 on its own, over every      *)
(* total up to MaxTotal.                                                   *)
(***************************************************************************)
InitSize ==
    /\ corpus = SmallCorpus(<<>>)
    /\ NoReader
    /\ total \in 0..MaxTotal
    /\ \E size \in TrainDataSizeArgs : nc_arg = NumClusterOf(size)
    /\ cluster_size = NotComputed
    /\ key = <<>>
    /\ recovered = NotRecovered

\* lines 88-89 for a training split of `total` utterances
ComputeSize ==
    /\ cluster_size = NotComputed
    /\ cluster_size' = ClusterSize(total, nc_arg)
    /\ UNCHANGED <<corpus, phase, raised, attrs, argVars, indexVars, clusterVars,
                   rest, next_cluster_flag, callVars, total, nc_arg,
                   key, recovered>>

NextSize == ComputeSize
SpecSize == InitSize /\ [][NextSize]_vars

(***************************************************************************)
(* The path built for a key (lines 70-75) and the name a batch reports for *)
(* it (lines 175-176, 239-240) on their own, over every key of up to       *)
(* MaxKeyLen characters of KeyAlphabet.                                    *)
(***************************************************************************)
KeyAlphabet == {"A", "7", "_", ".", "/"}

Keys == UNION {[1..n_ -> KeyAlphabet] : n_ \in 0..MaxKeyLen}

InitName ==
    /\ corpus = SmallCorpus(<<>>)
    /\ NoReader
    /\ total = 0
    /\ nc_arg = 0
    /\ cluster_size = NotComputed
    /\ key \in Keys
    /\ recovered = NotRecovered

\* the key goes into the input path at construction and comes back out of it
\* in a batch
RecoverName ==
    /\ recovered = NotRecovered
    /\ \E dt \in ValidDataTypes, size \in TrainDataSizeArgs, lt \in LabelTypeArgs :
          recovered' = NameOf(ArrayPath(DatasetPath(lt, size, dt), "input", key))
    /\ UNCHANGED <<corpus, phase, raised, attrs, argVars, indexVars, clusterVars,
                   rest, next_cluster_flag, callVars, total, nc_arg, cluster_size,
                   key>>

NextName == RecoverName
SpecName == InitName /\ [][NextName]_vars

(***************************************************************************)
(* Properties of the reader.                                               *)
(***************************************************************************)
Ready == phase = "ready"
Called == Ready /\ call.op = "next_batch"
Returned == Called /\ raised = "none"
Train == data_type = "train"
\* the indices of the current cluster
ClusterIndices == PyRange(Len(input_paths_cluster))
\* the arrays in memory have the width the reader declares as input_size
WidthOK == \A i \in 1..Len(input_list) : input_list[i].width = input_size
\* the array the reader holds for item k of the corpus
Loaded(k) ==
    IF num_stack # None /\ num_skip # None
    THEN StackFrame(FeatureFile(corpus, k), TheVal(num_stack), TheVal(num_skip))
    ELSE FeatureFile(corpus, k)
\* the indices returned so far in the pass that is under way
EmittedInPass ==
    IF pass_end \/ Len(emitted) # Len(input_paths_cluster) THEN {}
    ELSE {i \in ClusterIndices : emitted[i + 1] >= 1}
NameSet(names) == {names[i] : i \in 1..Len(names)}

\* C1: in sorted mode on a non-training split no index is returned twice
\* within an epoch, and at the refill that ends the epoch every index of the
\* cluster has been returned exactly once.
C1_EpochCoversOnce ==
    (Ready /\ is_sorted /\ ~Train) =>
        /\ \A i \in 1..Len(emitted) : emitted[i] <= 1
        /\ pass_end => /\ Len(emitted) = data_num_cluster
                       /\ \A i \in 1..Len(emitted) : emitted[i] = 1

C1_Witness ==
    /\ Returned /\ is_sorted /\ ~Train
    /\ pass_end /\ batch_size = 1 /\ data_num_cluster >= 2
    /\ \A i \in 1..Len(emitted) : emitted[i] = 1

\* C2: after every return of next_batch with batch_size >= 1 on a cluster of
\* at least one utterance, rest is non-empty, next_cluster_flag is False and
\* the arrays in memory are the ones stored at the paths of the current
\* cluster, in order.
C2_FullyAdvanced ==
    (Returned /\ batch_size >= 1 /\ data_num_cluster >= 1) =>
        /\ rest # {}
        /\ next_cluster_flag = FALSE
        /\ Len(input_list) = Len(input_paths_cluster)
        /\ Len(label_list) = Len(label_paths_cluster)
        /\ Len(input_list) = Len(label_list)
        /\ \A i \in 1..Len(input_list) :
              LET k == label_list[i][1]
              IN /\ input_paths_cluster[i]
                       = ArrayPath(dataset_path, "input", ItemName(corpus, k))
                 /\ label_paths_cluster[i]
                       = ArrayPath(dataset_path, "label", ItemName(corpus, k))
                 /\ input_list[i] = Loaded(k)
                 /\ label_list[i] = LabelFile(corpus, k)

C2_Witness ==
    /\ Returned /\ batch_size >= 1 /\ data_num_cluster >= 1
    /\ is_sorted /\ Train /\ pass_end
    /\ rest_cluster # call.rest_cluster
    /\ rest = ClusterIndices

C4_ZeroPadded ==
    Returned =>
        \A i \in 1..Len(ret.indices) :
            LET k == ret.labels[i][1]
                row == ret.input_data[i]
            IN /\ ret.input_names[i] = ItemName(corpus, k)
               /\ ret.seq_len[i] = Len(Loaded(k).frames)
               /\ Len(row) = ret.max_frame_num
               /\ ret.seq_len[i] <= ret.max_frame_num
               /\ \A t \in 1..ret.max_frame_num :
                     row[t] = IF t <= ret.seq_len[i] THEN Loaded(k).frames[t] ELSE 0

C4_Witness ==
    /\ Returned
    /\ \E i \in 1..Len(ret.indices) :
          /\ ret.seq_len[i] < ret.max_frame_num
          /\ ret.input_data[i][ret.max_frame_num] = 0
          /\ ret.input_data[i][1] # 0

\* C5: the time dimension of the tensor a sorted call returns is the frame
\* count of the highest selected index, which is the largest frame count in
\* the batch; and no row is too long for the tensor: with arrays of the
\* declared width a sorted call never raises ValueError.
C5_LastIsLongest ==
    (Called /\ is_sorted) =>
        /\ WidthOK => raised # "ValueError"
        /\ Returned =>
              /\ \A i \in 1..Len(ret.indices) :
                    /\ ret.seq_len[i] <= ret.max_frame_num
                    /\ (\A j \in 1..Len(ret.indices) : ret.indices[j] <= ret.indices[i])
                          => ret.seq_len[i] = ret.max_frame_num
              /\ \E i \in 1..Len(ret.indices) : ret.seq_len[i] = ret.max_frame_num

C5_Witness ==
    /\ Returned /\ is_sorted /\ WidthOK
    /\ Len(ret.indices) >= 2
    /\ ret.indices[1] > ret.indices[2]
    /\ ret.seq_len[1] = ret.max_frame_num
    /\ ret.seq_len[2] < ret.max_frame_num

\* C6: a call with batch_size <= 0 returns one batch holding every utterance
\* of the current cluster.
C6_NonPositiveTakesAll ==
    (Called /\ batch_size <= 0 /\ data_num_cluster >= 1 /\ WidthOK) =>
        /\ raised = "none"
        /\ Range(ret.indices) = ClusterIndices

C9_ClusterSize ==
    cluster_size # NotComputed =>
        /\ nc_arg \in {10, 15}
        /\ cluster_size = ((total \div nc_arg) \div 128) * 128
        /\ cluster_size % 128 = 0
        /\ cluster_size <= total \div nc_arg

C9_Witness ==
    /\ total = 15 * 256 - 1
    /\ nc_arg = 15
    /\ cluster_size = 128

ScenarioCall ==
    /\ corpus = ScenarioCorpus
    /\ Called /\ is_sorted /\ batch_size = 2

\* C10 as stated: over {a:5, b:3, c:8} in sorted mode with batch_size = 2,
\* on any split, the call that starts a pass returns {b, a} padded to 5 and
\* the next one returns {c} padded to 8 and ends the pass.
C10_ScenarioAnySplit ==
    ScenarioCall =>
        /\ call.rest = PyRange(data_num_cluster) =>
              /\ raised = "none"
              /\ NameSet(ret.input_names) = {<<"a">>, <<"b">>}
              /\ ret.max_frame_num = 5
        /\ Cardinality(call.rest) = 1 =>
              /\ raised = "none"
              /\ NameSet(ret.input_names) = {<<"c">>}
              /\ ret.max_frame_num = 8
              /\ pass_end

\* C10 amended: the same on a non-training split read without the frame
\* transform; the second call refills rest.  On the training split the
\* cluster is empty and the call raises IndexError.
C10_ScenarioEval ==
    ScenarioCall =>
        /\ (~Train /\ num_skip = None /\ WidthOK) =>
              /\ call.rest = {0, 1, 2} =>
                    /\ raised = "none"
                    /\ NameSet(ret.input_names) = {<<"a">>, <<"b">>}
                    /\ Len(ret.indices) = 2
                    /\ ret.max_frame_num = 5
                    /\ rest = {2}
                    /\ ~pass_end
              /\ call.rest = {2} =>
                    /\ raised = "none"
                    /\ ret.input_names = <<<<"c">>>>
                    /\ ret.max_frame_num = 8
                    /\ pass_end
                    /\ rest = {0, 1, 2}
        /\ Train =>
              /\ data_num_cluster = 0
              /\ raised = "IndexError"

C10_Witness ==
    /\ ScenarioCall /\ ~Train /\ num_skip = None /\ WidthOK
    /\ call.rest = {2}
    /\ ret.input_names = <<<<"c">>>>
    /\ ret.max_frame_num = 8
    /\ rest = {0, 1, 2}

\* a sorted reader on a non-training split of at least one utterance whose
\* arrays have the declared width
SortedEval == Ready /\ is_sorted /\ ~Train /\ data_num_cluster >= 1 /\ WidthOK

C12_NameIsKey ==
    recovered # NotRecovered => recovered = key

\* C13: a reader constructed on a valid split with num_stack and num_skip
\* left at None completes construction with its first cluster loaded
\* untransformed, and the batches it serves hold the untransformed features.
C13_TransformOptional ==
    /\ (call.op = "__init__" /\ call.data_type \in ValidDataTypes
           /\ num_stack = None /\ num_skip = None) =>
          /\ phase = "ready"
          /\ raised = "none"
          /\ Len(input_list) = data_num_cluster
          /\ \A i \in 1..Len(input_list) :
                input_list[i] = FeatureFile(corpus, label_list[i][1])
    /\ (Called /\ num_stack = None /\ num_skip = None /\ batch_size >= 1
           /\ data_num_cluster >= 1) =>
          /\ raised = "none"
          /\ \A i \in 1..Len(ret.indices) :
                ret.input_data[i]
                    = PadRow(FeatureFile(corpus, ret.labels[i][1]).frames,
                             ret.max_frame_num)

\* a sorted reader on the training split with a non-empty cluster
SortedTrain == Ready /\ is_sorted /\ Train /\ data_num_cluster >= 1
\* the number of the cluster a reader with rest_cluster_ clusters to go holds
ClusterNo(rest_cluster_) == num_cluster - 1 - rest_cluster_
\* positions [k * cluster_size, (k + 1) * cluster_size) of the sorted paths
SliceNo(sub, k) ==
    PathSlice(corpus, frame_num_tuple_sorted, dataset_path, sub,
              k * data_num_cluster, (k + 1) * data_num_cluster)

\* C14: in sorted mode on the training split the call that exhausts cluster k
\* loads cluster k + 1, at offset (num_cluster - rest_cluster) * cluster_size,
\* and counts rest_cluster down; the one that exhausts the last cluster loads
\* cluster 0 again with rest_cluster = num_cluster - 1.  A call that does not
\* exhaust the cluster leaves it in place.
C14_ClustersInOrder ==
    (SortedTrain /\ Returned) =>
        IF pass_end
        THEN /\ ClusterNo(rest_cluster) = (ClusterNo(call.rest_cluster) + 1) % num_cluster
             /\ call.rest_cluster >= 1 =>
                   /\ rest_cluster = call.rest_cluster - 1
                   /\ input_paths_cluster
                         = PathSlice(corpus, frame_num_tuple_sorted, dataset_path, "input",
                                     (num_cluster - call.rest_cluster) * data_num_cluster,
                                     (num_cluster - call.rest_cluster) * data_num_cluster
                                         + data_num_cluster)
             /\ call.rest_cluster = 0 =>
                   /\ rest_cluster = num_cluster - 1
                   /\ input_paths_cluster = SliceNo("input", 0)
             /\ label_paths_cluster = SliceNo("label", ClusterNo(rest_cluster))
        ELSE /\ rest_cluster = call.rest_cluster
             /\ input_paths_cluster = SliceNo("input", ClusterNo(rest_cluster))
             /\ label_paths_cluster = SliceNo("label", ClusterNo(rest_cluster))

C14_Witness ==
    /\ SortedTrain /\ Returned /\ pass_end
    /\ call.rest_cluster = 0
    /\ rest_cluster = num_cluster - 1
    /\ input_paths_cluster = SliceNo("input", 0)

\* the m smallest elements of a set of numbers
Smallest(set, m) == {i \in set : Cardinality({j \in set : j < i}) < m}
\* ceil(a / b) for b >= 1
CeilDiv(a, b) == (a + b - 1) \div b

\* C15: a sorted call with batch_size >= 1 returns exactly the
\* min(batch_size, |rest|) smallest indices rest held when it started; a batch
\* shorter than batch_size ends the pass; and a pass made of calls of one
\* batch_size over a cluster of n utterances has ceil(n / batch_size) calls.
C15_FrontOfRest ==
    (Returned /\ is_sorted /\ batch_size >= 1) =>
        /\ Len(ret.indices) = Min2(batch_size, Cardinality(call.rest))
        /\ Range(ret.indices) = Smallest(call.rest, Min2(batch_size, Cardinality(call.rest)))
        /\ Len(ret.indices) < batch_size => pass_end
        /\ pass_calls.bs = batch_size =>
              /\ pass_calls.n <= CeilDiv(data_num_cluster, batch_size)
              /\ pass_end <=> pass_calls.n = CeilDiv(data_num_cluster, batch_size)

C15_Witness ==
    /\ Returned /\ is_sorted
    /\ batch_size = 2 /\ data_num_cluster = 3
    /\ pass_calls.n = 2
    /\ pass_calls.bs = 2
    /\ pass_end
    /\ ret.indices = <<2>>
    /\ call.rest = {2}

\* C16: an unsorted call with batch_size >= 1, on any split, returns
\* min(batch_size, |rest|) distinct indices that rest held; no index is
\* returned twice within a pass; the call that takes the last indices of rest
\* has refilled rest with the whole cluster when it returns, and by then every
\* index has been returned exactly once.
C16_UnsortedPass ==
    (Returned /\ ~is_sorted /\ batch_size >= 1) =>
        /\ Len(ret.indices) = Min2(batch_size, Cardinality(call.rest))
        /\ Cardinality(Range(ret.indices)) = Len(ret.indices)
        /\ Range(ret.indices) \subseteq call.rest
        /\ Len(emitted) = data_num_cluster
        /\ \A i \in 1..Len(emitted) : emitted[i] <= 1
        /\ pass_end <=> Range(ret.indices) = call.rest
        /\ IF pass_end
           THEN /\ rest = ClusterIndices
                /\ \A i \in 1..Len(emitted) : emitted[i] = 1
           ELSE rest = call.rest \ Range(ret.indices)

C16_Witness ==
    /\ Returned /\ ~is_sorted /\ Train
    /\ data_num_cluster > TestBatchSize
    /\ batch_size = TestBatchSize
    /\ pass_end
    /\ pass_calls.n = 2
    /\ rest = ClusterIndices


\* the item of the corpus at index idx of cluster k of the sorted order
ItemAt(k, idx) == frame_num_tuple_sorted[k * data_num_cluster + idx + 1]

\* C17: in sorted mode on the training split every returned batch, the one
\* of the call that exhausts a cluster included, is made of the features,
\* labels, lengths and names of the cluster the reader held when the call
\* started; the arrays of the next cluster are in memory, with rest refilled,
\* only once that call has returned, so the following call draws from them.
C17_BatchOfExhaustedCluster ==
    (SortedTrain /\ Returned) =>
        /\ \A i \in 1..Len(ret.indices) :
              \E item \in {ItemAt(ClusterNo(call.rest_cluster), ret.indices[i])} :
                 /\ ret.indices[i] < data_num_cluster
                 /\ ret.labels[i] = LabelFile(corpus, item)
                 /\ ret.seq_len[i] = Len(Loaded(item).frames)
                 /\ ret.input_data[i] = PadRow(Loaded(item).frames, ret.max_frame_num)
                 /\ ret.input_names[i]
                       = NameOf(ArrayPath(dataset_path, "input", ItemName(corpus, item)))
        /\ pass_end =>
              /\ rest = ClusterIndices
              /\ Len(input_list) = data_num_cluster
              /\ Len(label_list) = data_num_cluster
              /\ \A i \in 1..data_num_cluster :
                    /\ input_list[i] = Loaded(ItemAt(ClusterNo(rest_cluster), i - 1))
                    /\ label_list[i]
                          = LabelFile(corpus, ItemAt(ClusterNo(rest_cluster), i - 1))

C17_Witness ==
    /\ SortedTrain /\ Returned /\ pass_end
    /\ ret.indices # <<>>
    /\ ClusterNo(call.rest_cluster) >= 1
    /\ ClusterNo(rest_cluster) # ClusterNo(call.rest_cluster)
    /\ input_list[1] # Loaded(ItemAt(ClusterNo(call.rest_cluster), 0))


\* C18: on a non-training split in sorted mode no call advances or reloads a
\* cluster: the path slices stay the whole split, rest_cluster stays 0,
\* next_cluster_flag stays False and the arrays in memory stay the ones
\* __init__ loaded; of the reader's state a call changes rest alone, removing
\* the selected indices while more than batch_size remain and setting it to
\* the whole split again otherwise.
C18_OnlyRestChanges ==
    [][(Ready /\ is_sorted /\ ~Train) =>
          /\ UNCHANGED <<phase, attrs, argVars, indexVars, clusterVars,
                         next_cluster_flag>>
          /\ rest_cluster' = 0
          /\ ~next_cluster_flag'
          /\ input_paths_cluster' = input_paths
          /\ label_paths_cluster' = label_paths
          /\ IF Cardinality(rest) > batch_size'
             THEN /\ rest' \subseteq rest
                  /\ batch_size' >= 0 => rest' = rest \ Smallest(rest, batch_size')
             ELSE rest' = ClusterIndices]_vars

C18_Witness ==
    /\ Called /\ is_sorted /\ ~Train
    /\ pass_end
    /\ call.rest # ClusterIndices
    /\ call.rest # {}
    /\ rest = ClusterIndices
    /\ rest_cluster = 0
    /\ ~next_cluster_flag
    /\ input_paths_cluster = input_paths
    /\ Len(input_list) = data_num


\* the positions of the frame-count-sorted split the pass under way had
\* returned when the last call started
Served == Cardinality(ClusterIndices) - Cardinality(call.rest)

\* C19 as stated: on a sorted reader over a non-training split a pass that
\* follows a refill does not advance through the frame-count-sorted order: a
\* batch that leaves part of rest behind is not made of the lowest positions
\* that remain.
C19_RefillReshuffles ==
    (SortedEval /\ Returned /\ pass_calls.after_refill
        /\ batch_size >= 1 /\ Cardinality(call.rest) > batch_size) =>
        Range(ret.indices) # Smallest(call.rest, batch_size)

\* C19: the refill puts every position of the split back into rest and
\* reorders nothing: a pass that follows a refill advances through the
\* frame-count-sorted order exactly as the first pass does.  Its first batch
\* starts at position 0, every batch is the run of positions that follows the
\* ones already returned, the arrays stay in ascending frame-count order, and
\* only the order inside a batch is shuffled.
C19_EveryPassSorted ==
    (SortedEval /\ Returned /\ pass_calls.after_refill /\ batch_size >= 1) =>
        /\ \A i \in 1..(Len(input_list) - 1) :
              Len(input_list[i].frames) <= Len(input_list[i + 1].frames)
        /\ pass_calls.n = 1 => Served = 0
        /\ Len(ret.indices) = Min2(batch_size, Cardinality(call.rest))
        /\ Range(ret.indices)
              = {j \in ClusterIndices : Served <= j /\ j < Served + Len(ret.indices)}
        /\ ret.max_frame_num = Len(input_list[Served + Len(ret.indices)].frames)
        /\ pass_end => rest = ClusterIndices

C19_Witness ==
    /\ SortedEval /\ Returned /\ pass_calls.after_refill
    /\ batch_size = 1
    /\ pass_calls.n = 2
    /\ Served = 1
    /\ ret.indices = <<1>>
    /\ Cardinality(call.rest) > batch_size
    /\ Len(input_list[1].frames) < Len(input_list[2].frames)


\* C20: on a sorted reader over the training split, between calls,
\* rest_cluster is in 0..num_cluster-1, the input and label path slices are
\* positions [k*cluster_size, (k+1)*cluster_size) of the sorted paths with
\* k = num_cluster - 1 - rest_cluster, the clusters fit in the corpus
\* (num_cluster * cluster_size <= total), and so the cluster in memory has
\* exactly cluster_size utterances, the same ones for inputs and labels.
C20_ClusterInsideCorpus ==
    (Ready /\ is_sorted /\ Train) =>
        /\ rest_cluster \in 0..(num_cluster - 1)
        /\ num_cluster * data_num_cluster <= data_num
        /\ data_num = Len(frame_num_tuple_sorted)
        /\ input_paths_cluster = SliceNo("input", ClusterNo(rest_cluster))
        /\ label_paths_cluster = SliceNo("label", ClusterNo(rest_cluster))
        /\ Len(input_paths_cluster) = data_num_cluster
        /\ Len(label_paths_cluster) = data_num_cluster
        /\ Len(input_list) = data_num_cluster
        /\ Len(label_list) = data_num_cluster
        /\ \A i \in 1..data_num_cluster :
              NameOf(input_paths_cluster[i]) = NameOf(label_paths_cluster[i])

C20_Witness ==
    /\ SortedTrain /\ Returned /\ pass_end
    /\ rest_cluster = 0
    /\ ClusterNo(rest_cluster) = num_cluster - 1
    /\ Len(input_list) = data_num_cluster
    /\ num_cluster * data_num_cluster < data_num
    /\ input_paths_cluster = SliceNo("input", num_cluster - 1)


\* the names of the utterances at positions [a, b) of the sorted order
NamesAt(a, b) ==
    {NameOf(ArrayPath(dataset_path, "input",
                      ItemName(corpus, frame_num_tuple_sorted[p + 1]))) :
        p \in {q \in PyRange(data_num) : a <= q /\ q < b}}

\* C21: on a sorted reader over the training split the batches of an epoch
\* are consecutive windows of the sorted order that start at position 0 and
\* stop at num_cluster * cluster_size: an epoch returns exactly that many
\* utterances, each once, and the utterances at the positions from there on
\* are in no batch of any epoch.
C21_TailNeverEmitted ==
    (SortedTrain /\ Returned) =>
        /\ pass_calls.epoch_rows <= num_cluster * data_num_cluster
        /\ Len(ret.input_names) = Len(ret.indices)
        /\ Cardinality(NameSet(ret.input_names)) = Len(ret.indices)
        /\ NameSet(ret.input_names)
              = NamesAt(pass_calls.epoch_rows - Len(ret.indices), pass_calls.epoch_rows)
        /\ NameSet(ret.input_names)
              \cap NamesAt(num_cluster * data_num_cluster, data_num) = {}
        /\ EpochEnd <=> pass_calls.epoch_rows = num_cluster * data_num_cluster

C21_Witness ==
    /\ SortedTrain /\ Returned /\ EpochEnd
    /\ pass_calls.after_refill
    /\ pass_calls.epoch_rows = num_cluster * data_num_cluster
    /\ num_cluster * data_num_cluster < data_num
    /\ NamesAt(num_cluster * data_num_cluster, data_num) # {}


\* C22: on an unsorted reader over the training split no call changes the
\* cluster path slices, rest_cluster (it stays num_cluster - 1),
\* next_cluster_flag or the arrays in memory: the slices stay positions
\* 0..cluster_size-1 of the sorted paths, a pass that ends refills rest with
\* that same cluster, and every utterance returned is one of that cluster.
C22_UnsortedStaysOnFirstCluster ==
    [][(Ready /\ ~is_sorted /\ Train) =>
          /\ UNCHANGED <<phase, attrs, argVars, indexVars, clusterVars,
                         next_cluster_flag>>
          /\ rest_cluster' = num_cluster - 1
          /\ ~next_cluster_flag'
          /\ input_paths_cluster' = SliceNo("input", 0)
          /\ label_paths_cluster' = SliceNo("label", 0)
          /\ Len(input_list') = data_num_cluster
          /\ ~Take(rest, batch_size') => rest' = PyRange(data_num_cluster)
          /\ raised' = "none" =>
                /\ \A i \in 1..Len(ret'.indices) :
                      /\ ret'.indices[i] \in PyRange(data_num_cluster)
                      /\ ret'.input_names[i]
                            = NameOf(ArrayPath(dataset_path, "input",
                                  ItemName(corpus, ItemAt(0, ret'.indices[i]))))
                      /\ ret'.labels[i] = LabelFile(corpus, ItemAt(0, ret'.indices[i]))]_vars

C22_Witness ==
    /\ Returned /\ ~is_sorted /\ Train
    /\ pass_end /\ pass_calls.after_refill
    /\ rest_cluster = num_cluster - 1
    /\ num_cluster >= 2
    /\ data_num_cluster >= 1
    /\ data_num > data_num_cluster
    /\ rest = PyRange(data_num_cluster)
    /\ input_paths_cluster = SliceNo("input", 0)


\* a reader over the training split whose cluster is empty
EmptyTrain == Ready /\ Train /\ data_num_cluster = 0

\* what C23 says of the calls on an empty training cluster: the cluster is
\* non-empty exactly from 128 * num_cluster utterances on, and every call with
\* batch_size >= 1 on an empty one raises and returns nothing
EmptyClusterRaises ==
    /\ (Ready /\ Train) =>
          /\ data_num_cluster >= 1 <=> data_num >= ClusterAlign * num_cluster
          /\ data_num_cluster = 0 => (rest = {} /\ input_list = <<>>)
    /\ (EmptyTrain /\ Called /\ batch_size >= 1) =>
          /\ raised \in {"IndexError", "ValueError"}
          /\ ret = NoRet

\* C23 as stated: construction over the training split succeeds whatever the
\* size of the corpus, with a cluster that is non-empty exactly when
\* total >= 128 * num_cluster and an empty rest otherwise, and every call with
\* batch_size >= 1 on an empty cluster ends in an error.
C23_EmptyClusterStillConstructs ==
    /\ (call.op = "__init__" /\ call.data_type = "train") =>
          /\ phase = "ready"
          /\ raised = "none"
    /\ EmptyClusterRaises


\* the indices from k up to the end of the cluster
Suffix(k) == {j \in ClusterIndices : j >= k}

\* C24: on a sorted reader rest is between calls a suffix {k, ..., n-1} of the
\* cluster's index range; of two successive returning calls of one pass with
\* batch_size >= 1 the second returns the window of positions that follows
\* the window of the first, and no utterance of the first is longer than any
\* utterance of the second.
C24_RestIsSuffix ==
    /\ []((Ready /\ is_sorted) =>
             rest = Suffix(Cardinality(ClusterIndices) - Cardinality(rest)))
    /\ [][(Returned /\ is_sorted /\ ~pass_end /\ batch_size >= 1
              /\ batch_size' >= 1 /\ raised' = "none") =>
             /\ Range(ret.indices) \cap Range(ret'.indices) = {}
             /\ Range(ret.indices) \cup Range(ret'.indices)
                   = {j \in ClusterIndices :
                         /\ Served <= j
                         /\ j < Served + Len(ret.indices) + Len(ret'.indices)}
             /\ \A i \in Range(ret.indices), j \in Range(ret'.indices) : i < j
             /\ \A i \in 1..Len(ret.seq_len), j \in 1..Len(ret'.seq_len) :
                   ret.seq_len[i] <= ret'.seq_len[j]]_vars

C24_Witness ==
    /\ corpus = ScenarioCorpus
    /\ Returned /\ is_sorted /\ ~Train
    /\ batch_size = 1
    /\ pass_calls.n = 2
    /\ pass_calls.bs = 1
    /\ ret.indices = <<1>>
    /\ ret.seq_len = <<5>>
    /\ rest = Suffix(2)
    /\ rest = {2}


\* what a call to a sorted reader shows apart from the order of its rows
Shown(raised_, result, rest_, flag, cluster) ==
    [raised |-> raised_,
     utterances |-> NameSet(result.input_names),
     indices |-> Range(result.indices),
     rows |-> {<<result.indices[i], result.input_data[i], result.labels[i],
                 result.seq_len[i], result.input_names[i]>> :
                 i \in 1..Len(result.indices)},
     max_frame_num |-> result.max_frame_num,
     rest |-> rest_,
     next_cluster_flag |-> flag,
     cluster |-> cluster]

\* lines 141-198 for a second reader in the same state whose random.shuffle
\* leaves every list as it is: what its call with batch_size bs shows
Unshuffled(bs) ==
    LET n == Len(input_paths_cluster)
        train == data_type = "train"
        sorted_indices == SortedIndices(rest, bs, n)
        rest1 == SortedRest(rest, bs, n, train)
        flag1 == SortedFlag(rest, bs, train, next_cluster_flag)
    IN IF sorted_indices = <<>>
       THEN Shown("IndexError", NoRet, rest1, flag1, HeldCluster)
       ELSE IF ~Broadcasts(sorted_indices,
                           SortedMaxFrameNum(sorted_indices, input_list),
                           input_list, input_size)
       THEN Shown("ValueError", NoRet, rest1, flag1, HeldCluster)
       ELSE IF flag1
       THEN Shown("none",
                  Assemble(sorted_indices,
                           SortedMaxFrameNum(sorted_indices, input_list),
                           input_list, label_list, input_paths_cluster),
                  PyRange(data_num_cluster), FALSE, AdvancedCluster(train))
       ELSE Shown("none",
                  Assemble(sorted_indices,
                           SortedMaxFrameNum(sorted_indices, input_list),
                           input_list, label_list, input_paths_cluster),
                  rest1, FALSE, HeldCluster)

\* C25: on a sorted reader the outcome of random.shuffle reaches nothing but
\* the order of the rows of a batch.  Whatever the shuffle, a call shows what
\* the call of a second reader in the same state, given the same batch_size
\* and a shuffle that moves nothing, shows: the same error or the same set of
\* utterances with the same rows, the same max_frame_num, and the same rest,
\* next_cluster_flag, rest_cluster, cluster path slices and arrays afterwards.
\* Two readers built alike and called alike therefore agree call by call.
C25_ShuffleOnlyOrdersRows ==
    [][(Ready /\ is_sorted) =>
          Shown(raised', ret', rest', next_cluster_flag', HeldCluster')
              = Unshuffled(batch_size')]_vars

C25_Witness ==
    /\ Returned /\ is_sorted
    /\ Len(ret.indices) >= 2
    /\ \E i \in 1..(Len(ret.indices) - 1) : ret.indices[i] > ret.indices[i + 1]
    /\ ret.max_frame_num > ret.seq_len[Len(ret.indices)]
    /\ rest # call.rest

====
